---------------------------- MODULE Spec2Model ----------------------------
(***************************************************************************)
(* Model of hand_tracker.py: the calibration store (HandCalibration), the  *)
(* exponential smoother (AngleSmoother) and the frame loop of main() with  *)
(* its button and key handlers.                                            *)
(*                                                                         *)
(* Numbers.  Raw readings and calibration bounds are floats in the source; *)
(* here they are integers in units of 1/10000, so the degenerate-range     *)
(* threshold 0.001 is Eps units.  The smoother's running values are the    *)
(* exact rationals smoothed[i] / AlphaDen^blends (alpha = 0.35 = 7/20).    *)
(* Arithmetic is exact: binary floating-point rounding is not modelled.    *)
(*                                                                         *)
(* A frame's 21 landmarks are abstracted to the pose they show; the raw    *)
(* readings the feature functions compute from them are the table Raw.     *)
(***************************************************************************)
EXTENDS Integers, Sequences, FiniteSets, TLC

\* ------------------------------------------------------------------ bounds
\* Most blending steps of the smoother between two resets.
MaxBlend == 1
\* Most control inputs (key presses and mouse events) the user makes.
MaxInputs == 2

\* smooth calls in a row, the first unblended, when the smoother is driven
\* on its own
MaxCalls == 4

\* ---------------------------------------------------------------- constants
\* abs(max_val - min_val) < 0.001, in units of 1/10000
Eps == 10
\* the value normalize returns for an unknown name or a degenerate range
Sentinel == 500
\* normalized * 1000
FullScale == 1000
\* AngleSmoother(alpha=0.35): alpha = AlphaNum / AlphaDen
AlphaNum == 7
AlphaDen == 20
\* Button geometry of main()
btn_width == 130
btn_height == 40
btn_y == 10
btn_x == 640 - btn_width - 10

finger_names == <<"pinky", "ring", "middle", "index", "thumb_bend", "thumb_rotation">>

Channels == {finger_names[i] : i \in 1..6}

\* an empty Python dict
EmptyDict == [c \in {} |-> 0]

\* The built-in ranges of HandCalibration.__init__ and reset_defaults.
DefaultRanges ==
  [c \in Channels |->
     CASE c = "thumb_bend"     -> <<3000, 15000>>
       [] c = "thumb_rotation" -> <<1500, 8500>>
       [] OTHER                -> <<5000, 22000>>]

\* ------------------------------------------------------------------ inputs
\* The poses a frame can show, and the six raw readings of each.
Poses == {"open", "fist"}

Raw(p) ==
  [c \in Channels |->
     IF p = "open"
     THEN (CASE c = "pinky" -> 18000 [] c = "ring" -> 19000
             [] c = "middle" -> 20000 [] c = "index" -> 19000
             [] c = "thumb_bend" -> 14000 [] OTHER -> 9000)
     ELSE (CASE c = "pinky" -> 6000 [] c = "ring" -> 6000
             [] c = "middle" -> 4000 [] c = "index" -> 7000
             [] c = "thumb_bend" -> 4000 [] OTHER -> 2000)]

\* The landmark list of a packet: the 21 keypoints of the pose shown.
Landmarks(p) == [i \in 1..21 |-> p]

\* json.dump writes a number as its decimal numeral, a sequence of digits;
\* json.load reads the number back from the numeral.
RECURSIVE Numeral(_)
Numeral(n) == IF n < 10 THEN <<n>> ELSE Append(Numeral(n \div 10), n % 10)

RECURSIVE NumberOf(_)
NumberOf(ds) ==
  IF Len(ds) = 0 THEN 0 ELSE 10 * NumberOf(SubSeq(ds, 1, Len(ds) - 1)) + ds[Len(ds)]

\* Faulty variant of json_dump: numbers are written with one decimal place.
json_dump_1dp(fr) ==
  [c \in DOMAIN fr |-> [k \in DOMAIN fr[c] |-> Numeral((fr[c][k] \div 1000) * 1000)]]

json_dump(fr) == [c \in DOMAIN fr |-> [k \in DOMAIN fr[c] |-> Numeral(fr[c][k])]]

json_load(m) == [c \in DOMAIN m |-> [k \in DOMAIN m[c] |-> NumberOf(m[c][k])]]

\* Contents of hand_calibration.json.  kind "missing": no file; "corrupt":
\* json.load raises; "map": a JSON object from channel names to values.  A
\* value is a list of numerals: a [min, max] pair, or a list of another
\* length (a wrong shape).
Missing == [kind |-> "missing", map |-> EmptyDict]
Corrupt == [kind |-> "corrupt", map |-> EmptyDict]
MapFile(m) == [kind |-> "map", map |-> m]

\* The record main() first finds: one of two channels, one of them with a
\* range 0.0005 wide, or one with a wrong shape.  No file is what a reset
\* leaves for the next start, an unparsable file what a save that failed
\* while writing leaves: Main starts from them.
InitialFiles ==
  { MapFile(json_dump([c \in {"pinky", "thumb_bend"} |->
                         IF c = "pinky" THEN <<7000, 16000>> ELSE <<4000, 4005>>])),
    MapFile(json_dump([c \in {"ring"} |-> <<6000>>])) }

\* The points the pointer visits: outside every button, and inside each.
Points == { <<0, 0>>, <<565, 30>>, <<565, 80>>, <<565, 130>>, <<565, 180>>, <<565, 230>> }

\* The events the window delivers: a left click at any of the points, a
\* pointer move off the buttons.
MouseEvents ==
  {<<"EVENT_LBUTTONDOWN", pt>> : pt \in Points} \cup {<<"EVENT_MOUSEMOVE", <<0, 0>>>>}

VARIABLES
  pc,                  \* "start" | "frame" | "click" | "key" | "stopped" | "crashed"
  calibration_file,    \* contents of CALIBRATION_FILE
  finger_ranges,       \* calibration.finger_ranges
  smoother,            \* [smoothed, blends, initialized]
  current_raw_values,  \* {} or the raw readings of the last hand frame
  hand_detected,       \* hand_detected of the last processed frame
  data,                \* the last packet handed to sock.sendto
  mouse_x, mouse_y, mouse_clicked,
  mirror_mode,
  message, message_color,
  load_returned,       \* what load_calibration returned at construction
  lastEvent,           \* history: the control event handled last in this iteration
  calState,            \* history: "dirty": ranges changed since the last hand frame;
                       \* "fresh": the last frame was the first hand frame after a change
  inputs,              \* history: control inputs delivered so far
  click_pos,           \* history: where each left click not yet handled was made
  smooth_log           \* history: [in, out] of the smooth calls since the smoother
                       \* last took its input unblended

vars == <<pc, calibration_file, finger_ranges, smoother, current_raw_values,
          hand_detected, data, mouse_x, mouse_y, mouse_clicked,
          mirror_mode, message, message_color, load_returned, lastEvent, calState,
          inputs, click_pos, smooth_log>>

\* ------------------------------------------------------------------ Button
Button(x, y, width, height) == [x |-> x, y |-> y, width |-> width, height |-> height]

contains(btn, px, py) ==
  /\ btn.x <= px /\ px <= btn.x + btn.width
  /\ btn.y <= py /\ py <= btn.y + btn.height

btn_open   == Button(btn_x, btn_y, btn_width, btn_height)
btn_closed == Button(btn_x, btn_y + btn_height + 10, btn_width, btn_height)
btn_save   == Button(btn_x, btn_y + (btn_height + 10) * 2, btn_width, btn_height)
btn_reset  == Button(btn_x, btn_y + (btn_height + 10) * 3, btn_width, btn_height)
btn_mirror == Button(btn_x, btn_y + (btn_height + 10) * 4, btn_width, btn_height)

\* --------------------------------------------------------- HandCalibration
Abs(x) == IF x < 0 THEN -x ELSE x

\* Python's int() of the rational num / den, den > 0: truncation toward zero.
IntOf(num, den) == IF num >= 0 THEN num \div den ELSE -((-num) \div den)

\* "min_val, max_val = self.finger_ranges[finger_name]" raises unless the
\* value unpacks to exactly two items.
Unpacks(fr, finger_name) == Len(fr[finger_name]) = 2

NormalizeRaises(fr) == \E c \in Channels : ~Unpacks(fr, c)

\* Faulty variant of normalize: the clamp to [0, 1] is left out.
normalize_unclamped(fr, finger_name, raw_value) ==
  IF finger_name \notin DOMAIN fr THEN Sentinel
  ELSE LET min_val == fr[finger_name][1]
           max_val == fr[finger_name][2]
       IN  IF Abs(max_val - min_val) < Eps THEN Sentinel
           ELSE LET num == IF max_val > min_val THEN raw_value - min_val ELSE min_val - raw_value
                    den == Abs(max_val - min_val)
                IN  IntOf(num * FullScale, den)

\* Faulty variant of normalize: only max_val == min_val counts as degenerate.
normalize_exact_degenerate(fr, finger_name, raw_value) ==
  IF finger_name \notin DOMAIN fr THEN Sentinel
  ELSE LET min_val == fr[finger_name][1]
           max_val == fr[finger_name][2]
       IN  IF max_val = min_val THEN Sentinel
           ELSE LET num == IF max_val > min_val THEN raw_value - min_val ELSE min_val - raw_value
                    den == Abs(max_val - min_val)
                    clamped == IF num < 0 THEN 0 ELSE IF num > den THEN den ELSE num
                IN  IntOf(clamped * FullScale, den)

\* normalize: num / den is (raw_value - min_val) / (max_val - min_val) with
\* a positive denominator; max(0, min(1, .)) clamps it, int(. * 1000)
\* truncates.
normalize(fr, finger_name, raw_value) ==
  IF finger_name \notin DOMAIN fr THEN Sentinel
  ELSE LET min_val == fr[finger_name][1]
           max_val == fr[finger_name][2]
       IN  IF Abs(max_val - min_val) < Eps THEN Sentinel
           ELSE LET num == IF max_val > min_val THEN raw_value - min_val ELSE min_val - raw_value
                    den == Abs(max_val - min_val)
                    clamped == IF num < 0 THEN 0 ELSE IF num > den THEN den ELSE num
                IN  IntOf(clamped * FullScale, den)

update_min(fr, finger_name, value) ==
  IF finger_name \in DOMAIN fr
  THEN [fr EXCEPT ![finger_name] = [@ EXCEPT ![1] = value]]
  ELSE fr

\* Faulty variant of update_max: writes index 0, the min.
update_max_swapped(fr, finger_name, value) ==
  IF finger_name \in DOMAIN fr
  THEN [fr EXCEPT ![finger_name] = [@ EXCEPT ![1] = value]]
  ELSE fr

update_max(fr, finger_name, value) ==
  IF finger_name \in DOMAIN fr
  THEN [fr EXCEPT ![finger_name] = [@ EXCEPT ![2] = value]]
  ELSE fr

reset_defaults == DefaultRanges

\* Faulty variant of load_calibration: self.finger_ranges = loaded.
load_calibration_replace(fr, file) ==
  IF file.kind = "map"
  THEN [ranges |-> json_load(file.map), ret |-> TRUE]
  ELSE [ranges |-> fr, ret |-> FALSE]

\* load_calibration: [ranges, ret].  No file: falls through to return False.
\* json.load raises: caught, return False.  Otherwise dict.update(loaded).
load_calibration(fr, file) ==
  IF file.kind = "map"
  THEN LET loaded == json_load(file.map)
       IN  [ranges |-> [c \in DOMAIN fr |->
                          IF c \in DOMAIN loaded THEN loaded[c] ELSE fr[c]],
            ret |-> TRUE]
  ELSE [ranges |-> fr, ret |-> FALSE]

\* save_calibration under an I/O fault chosen by the environment: [file, ret].
\* "open": open(..., 'w') raises, the file is as it was.  "write": json.dump
\* raises after open truncated the file, which is left unparsable.
SaveFaults == {"none", "open", "write"}

save_calibration(fr, file, fault) ==
  CASE fault = "none" -> [file |-> MapFile(json_dump(fr)), ret |-> TRUE]
    [] fault = "open" -> [file |-> file, ret |-> FALSE]
    [] OTHER          -> [file |-> Corrupt, ret |-> FALSE]

\* HandCalibration(): the defaults, then load_calibration().
HandCalibration(file) == load_calibration(DefaultRanges, file)

\* ----------------------------------------------------------- AngleSmoother
RECURSIVE Pow(_, _)
Pow(b, n) == IF n = 0 THEN 1 ELSE b * Pow(b, n - 1)

\* AngleSmoother(alpha=0.35)
AngleSmoother == [smoothed |-> [i \in 1..6 |-> 500], blends |-> 0, initialized |-> FALSE]

\* The running value of channel i is s.smoothed[i] / AlphaDen^s.blends.
Den(s) == Pow(AlphaDen, s.blends)

\* Faulty variant of smooth: the first call blends too, with whatever the
\* running values were.
smooth_always_blends(s, angles) ==
  LET num == [i \in 1..6 |->
                AlphaNum * angles[i] * Den(s) + (AlphaDen - AlphaNum) * s.smoothed[i]]
      den == AlphaDen * Den(s)
  IN  [state |-> [smoothed |-> num, blends |-> s.blends + 1, initialized |-> TRUE],
       out   |-> [i \in 1..6 |-> IntOf(num[i], den)]]

\* smooth: [state, out]
smooth(s, angles) ==
  IF ~s.initialized
  THEN [state |-> [smoothed |-> angles, blends |-> 0, initialized |-> TRUE],
        out   |-> [i \in 1..6 |-> IntOf(angles[i], 1)]]
  ELSE LET num == [i \in 1..6 |->
                     AlphaNum * angles[i] * Den(s) + (AlphaDen - AlphaNum) * s.smoothed[i]]
           den == AlphaDen * Den(s)
       IN  [state |-> [smoothed |-> num, blends |-> s.blends + 1, initialized |-> TRUE],
            out   |-> [i \in 1..6 |-> IntOf(num[i], den)]]

\* Faulty variant of reset: the flag is left set.
reset_noop(s) == s

reset(s) == [s EXCEPT !.initialized = FALSE]

\* --------------------------------------------------------------- main()
NoHandPacket ==
  [detected |-> FALSE, angles |-> <<1000, 1000, 1000, 1000, 1000, 500>>, landmarks |-> <<>>]

NoEvent == [op |-> "none", trigger |-> "none", raw |-> FALSE, hand |-> FALSE, ok |-> TRUE]

\* The history record of a control event handled now.
Event(op, trigger, ok) ==
  [op |-> op, trigger |-> trigger, raw |-> current_raw_values # EmptyDict,
   hand |-> hand_detected, ok |-> ok]

\* "for fname in finger_names: if fname in current_raw_values: update(...)"
RECURSIVE CaptureMax(_, _, _)
CaptureMax(fr, crv, i) ==
  IF i > Len(finger_names) THEN fr
  ELSE LET fname == finger_names[i]
       IN  CaptureMax(IF fname \in DOMAIN crv THEN update_max(fr, fname, crv[fname]) ELSE fr,
                      crv, i + 1)

RECURSIVE CaptureMin(_, _, _)
CaptureMin(fr, crv, i) ==
  IF i > Len(finger_names) THEN fr
  ELSE LET fname == finger_names[i]
       IN  CaptureMin(IF fname \in DOMAIN crv THEN update_min(fr, fname, crv[fname]) ELSE fr,
                      crv, i + 1)

MirrorMessage(on) == IF on THEN "Mirror: ON" ELSE "Mirror: OFF"

\* The state of main() once the store and the smoother are constructed,
\* given the file on disk.
Init ==
  /\ calibration_file \in InitialFiles
  /\ finger_ranges = HandCalibration(calibration_file).ranges
  /\ load_returned = HandCalibration(calibration_file).ret
  /\ smoother = AngleSmoother
  /\ current_raw_values = EmptyDict
  /\ hand_detected = FALSE
  /\ data = NoHandPacket
  /\ mouse_x = 0 /\ mouse_y = 0 /\ mouse_clicked = FALSE
  /\ mirror_mode = TRUE
  /\ message = "" /\ message_color = <<0, 255, 255>>
  /\ lastEvent = NoEvent
  /\ calState = "clean"
  /\ inputs = 0
  /\ click_pos = <<>>
  /\ smooth_log = <<>>
  /\ pc = "start"

\* The program is run again after it stopped or died: a fresh process.
Main ==
  /\ pc \in {"stopped", "crashed"}
  /\ finger_ranges' = HandCalibration(calibration_file).ranges
  /\ load_returned' = HandCalibration(calibration_file).ret
  /\ smoother' = AngleSmoother
  /\ current_raw_values' = EmptyDict
  /\ hand_detected' = FALSE
  /\ data' = NoHandPacket
  /\ mouse_x' = 0 /\ mouse_y' = 0 /\ mouse_clicked' = FALSE
  /\ mirror_mode' = TRUE
  /\ message' = "" /\ message_color' = <<0, 255, 255>>
  /\ lastEvent' = NoEvent
  /\ calState' = "clean"
  /\ click_pos' = <<>>
  /\ smooth_log' = <<>>
  /\ pc' = "start"
  /\ UNCHANGED <<calibration_file, inputs>>

\* The camera, the window and the buttons are set up; the loop is entered.
EnterLoop ==
  /\ pc = "start"
  /\ pc' = "frame"
  /\ UNCHANGED <<calibration_file, finger_ranges, smoother, current_raw_values,
                 hand_detected, data, mouse_x, mouse_y, mouse_clicked, mirror_mode,
                 message, message_color, load_returned, lastEvent, calState, inputs,
                 click_pos, smooth_log>>

\* cap.read() fails: continue.  Nothing changes.
ReadFail ==
  /\ pc = "frame"
  /\ UNCHANGED <<pc, calibration_file, finger_ranges, smoother, current_raw_values,
                 hand_detected, data, mouse_x, mouse_y, mouse_clicked, mirror_mode,
                 message, message_color, load_returned, lastEvent, calState, inputs,
                 click_pos, smooth_log>>

\* Faulty variant of FrameNoHand: the smoother is reset when the hand is lost.
FrameNoHand_resets ==
  /\ pc = "frame"
  /\ hand_detected' = FALSE
  /\ data' = NoHandPacket
  /\ lastEvent' = NoEvent
  /\ calState' = IF calState = "fresh" THEN "clean" ELSE calState
  /\ smoother' = reset(smoother)
  /\ pc' = "click"
  /\ UNCHANGED <<calibration_file, finger_ranges, current_raw_values,
                 mouse_x, mouse_y, mouse_clicked, mirror_mode, message, message_color,
                 load_returned, inputs, click_pos, smooth_log>>

\* A frame without a hand: the packet keeps its initial contents and is sent.
FrameNoHand ==
  /\ pc = "frame"
  /\ hand_detected' = FALSE
  /\ data' = NoHandPacket
  /\ lastEvent' = NoEvent
  /\ calState' = IF calState = "fresh" THEN "clean" ELSE calState
  /\ pc' = "click"
  /\ UNCHANGED <<calibration_file, finger_ranges, smoother, current_raw_values,
                 mouse_x, mouse_y, mouse_clicked, mirror_mode, message, message_color,
                 load_returned, inputs, click_pos, smooth_log>>

\* "raw_angles": the six readings normalized, in the order of finger_names.
NormalizedAngles(fr, raw) ==
  [i \in 1..6 |-> normalize(fr, finger_names[i], raw[finger_names[i]])]

\* Faulty variant of FrameHand: only the four finger readings are replaced
\* once readings exist, the thumb's stay those of an earlier frame.
FrameHand_partial(p) ==
  /\ pc = "frame"
  /\ ~smoother.initialized \/ smoother.blends < MaxBlend
  /\ hand_detected' = TRUE
  /\ current_raw_values' =
       IF current_raw_values = EmptyDict THEN Raw(p)
       ELSE [c \in Channels |->
               IF c \in {"thumb_bend", "thumb_rotation"}
               THEN current_raw_values[c] ELSE Raw(p)[c]]
  /\ lastEvent' = NoEvent
  /\ IF NormalizeRaises(finger_ranges)
     THEN /\ pc' = "crashed"
          /\ calState' = "clean"
          /\ UNCHANGED <<smoother, data, smooth_log>>
     ELSE LET raw_angles == NormalizedAngles(finger_ranges, Raw(p))
              r == smooth(smoother, raw_angles)
          IN  /\ smoother' = r.state
              /\ data' = [detected |-> TRUE, angles |-> r.out, landmarks |-> Landmarks(p)]
              /\ smooth_log' = LET call == [in |-> raw_angles, out |-> r.out]
                               IN  IF smoother.initialized
                                   THEN Append(smooth_log, call) ELSE <<call>>
              /\ calState' = IF calState = "dirty" THEN "fresh" ELSE "clean"
              /\ pc' = "click"
  /\ UNCHANGED <<calibration_file, finger_ranges, mouse_x, mouse_y, mouse_clicked,
                 mirror_mode, message, message_color, load_returned, inputs, click_pos>>

\* A frame showing pose p.  The raw readings are stored, then normalized in
\* channel order; a range that does not unpack raises out of main().
FrameHand(p) ==
  /\ pc = "frame"
  /\ ~smoother.initialized \/ smoother.blends < MaxBlend
  /\ hand_detected' = TRUE
  /\ current_raw_values' = Raw(p)
  /\ lastEvent' = NoEvent
  /\ IF NormalizeRaises(finger_ranges)
     THEN /\ pc' = "crashed"
          /\ calState' = "clean"
          /\ UNCHANGED <<smoother, data, smooth_log>>
     ELSE LET raw_angles == NormalizedAngles(finger_ranges, Raw(p))
              r == smooth(smoother, raw_angles)
          IN  /\ smoother' = r.state
              /\ data' = [detected |-> TRUE, angles |-> r.out, landmarks |-> Landmarks(p)]
              /\ smooth_log' = LET call == [in |-> raw_angles, out |-> r.out]
                               IN  IF smoother.initialized
                                   THEN Append(smooth_log, call) ELSE <<call>>
              /\ calState' = IF calState = "dirty" THEN "fresh" ELSE "clean"
              /\ pc' = "click"
  /\ UNCHANGED <<calibration_file, finger_ranges, mouse_x, mouse_y, mouse_clicked,
                 mirror_mode, message, message_color, load_returned, inputs, click_pos>>

\* ----------------------------------------------------------- button clicks
NoClick ==
  /\ pc = "click"
  /\ ~mouse_clicked
  /\ pc' = "key"
  /\ UNCHANGED <<calibration_file, finger_ranges, smoother, current_raw_values,
                 hand_detected, data, mouse_x, mouse_y, mouse_clicked,
                 mirror_mode, message, message_color, load_returned, lastEvent, calState,
                 inputs, click_pos, smooth_log>>

\* What every click branch shares: the flag is cleared, the loop goes on.
Clicked ==
  /\ pc = "click"
  /\ mouse_clicked
  /\ mouse_clicked' = FALSE
  /\ click_pos' = <<>>
  /\ pc' = "key"
  /\ UNCHANGED <<current_raw_values, hand_detected, data, mouse_x, mouse_y,
                 load_returned, inputs, smooth_log>>

ClickOpen ==
  /\ Clicked
  /\ contains(btn_open, mouse_x, mouse_y)
  /\ lastEvent' = Event("open", "button", TRUE)
  /\ IF current_raw_values # EmptyDict
     THEN /\ finger_ranges' = CaptureMax(finger_ranges, current_raw_values, 1)
          /\ message' = "OPEN hand calibrated!"
          /\ message_color' = <<0, 255, 0>>
          /\ smoother' = reset(smoother)
     ELSE /\ message' = "No hand detected!"
          /\ message_color' = <<0, 0, 255>>
          /\ UNCHANGED <<finger_ranges, smoother>>
  /\ calState' = IF finger_ranges' # finger_ranges THEN "dirty" ELSE calState
  /\ UNCHANGED <<calibration_file, mirror_mode>>

ClickClosed ==
  /\ Clicked
  /\ ~contains(btn_open, mouse_x, mouse_y)
  /\ contains(btn_closed, mouse_x, mouse_y)
  /\ lastEvent' = Event("closed", "button", TRUE)
  /\ IF current_raw_values # EmptyDict
     THEN /\ finger_ranges' = CaptureMin(finger_ranges, current_raw_values, 1)
          /\ message' = "CLOSED fist calibrated!"
          /\ message_color' = <<0, 255, 0>>
          /\ smoother' = reset(smoother)
     ELSE /\ message' = "No hand detected!"
          /\ message_color' = <<0, 0, 255>>
          /\ UNCHANGED <<finger_ranges, smoother>>
  /\ calState' = IF finger_ranges' # finger_ranges THEN "dirty" ELSE calState
  /\ UNCHANGED <<calibration_file, mirror_mode>>

\* Faulty variant of ClickSave: the exception of a failed save is not caught
\* and ends main().
ClickSave_raises ==
  /\ pc = "click"
  /\ mouse_clicked
  /\ mouse_clicked' = FALSE
  /\ click_pos' = <<>>
  /\ ~contains(btn_open, mouse_x, mouse_y)
  /\ ~contains(btn_closed, mouse_x, mouse_y)
  /\ contains(btn_save, mouse_x, mouse_y)
  /\ \E fault \in SaveFaults :
       LET r == save_calibration(finger_ranges, calibration_file, fault)
       IN  /\ calibration_file' = r.file
           /\ lastEvent' = Event("save", "button", r.ret)
           /\ pc' = IF r.ret THEN "key" ELSE "crashed"
           /\ IF r.ret
              THEN message' = "Calibration SAVED!" /\ message_color' = <<0, 255, 255>>
              ELSE UNCHANGED <<message, message_color>>
  /\ UNCHANGED <<finger_ranges, smoother, mirror_mode, calState, current_raw_values,
                 hand_detected, data, mouse_x, mouse_y, load_returned, inputs,
                 smooth_log>>

ClickSave ==
  /\ Clicked
  /\ ~contains(btn_open, mouse_x, mouse_y)
  /\ ~contains(btn_closed, mouse_x, mouse_y)
  /\ contains(btn_save, mouse_x, mouse_y)
  /\ \E fault \in SaveFaults :
       LET r == save_calibration(finger_ranges, calibration_file, fault)
       IN  /\ calibration_file' = r.file
           /\ lastEvent' = Event("save", "button", r.ret)
           /\ IF r.ret
              THEN message' = "Calibration SAVED!" /\ message_color' = <<0, 255, 255>>
              ELSE message' = "Save FAILED!" /\ message_color' = <<0, 0, 255>>
  /\ UNCHANGED <<finger_ranges, smoother, mirror_mode, calState>>

\* os.remove may raise; "except: pass" leaves the file where it is.
ClickReset ==
  /\ Clicked
  /\ ~contains(btn_open, mouse_x, mouse_y)
  /\ ~contains(btn_closed, mouse_x, mouse_y)
  /\ ~contains(btn_save, mouse_x, mouse_y)
  /\ contains(btn_reset, mouse_x, mouse_y)
  /\ finger_ranges' = reset_defaults
  /\ \E removed \in BOOLEAN :
       /\ calibration_file' =
            IF calibration_file.kind # "missing" /\ removed THEN Missing ELSE calibration_file
       /\ lastEvent' = Event("reset", "button", calibration_file.kind = "missing" \/ removed)
  /\ message' = "Reset to defaults!"
  /\ message_color' = <<0, 200, 255>>
  /\ smoother' = reset(smoother)
  /\ calState' = IF finger_ranges' # finger_ranges THEN "dirty" ELSE calState
  /\ UNCHANGED mirror_mode

ClickMirror ==
  /\ Clicked
  /\ ~contains(btn_open, mouse_x, mouse_y)
  /\ ~contains(btn_closed, mouse_x, mouse_y)
  /\ ~contains(btn_save, mouse_x, mouse_y)
  /\ ~contains(btn_reset, mouse_x, mouse_y)
  /\ contains(btn_mirror, mouse_x, mouse_y)
  /\ mirror_mode' = ~mirror_mode
  /\ message' = MirrorMessage(~mirror_mode)
  /\ message_color' = <<200, 200, 200>>
  /\ lastEvent' = Event("mirror", "button", TRUE)
  /\ UNCHANGED <<calibration_file, finger_ranges, smoother, calState>>

\* A click on no button only clears the flag.
ClickNowhere ==
  /\ Clicked
  /\ ~contains(btn_open, mouse_x, mouse_y)
  /\ ~contains(btn_closed, mouse_x, mouse_y)
  /\ ~contains(btn_save, mouse_x, mouse_y)
  /\ ~contains(btn_reset, mouse_x, mouse_y)
  /\ ~contains(btn_mirror, mouse_x, mouse_y)
  /\ UNCHANGED <<calibration_file, finger_ranges, smoother, mirror_mode, message,
                 message_color, lastEvent, calState>>

\* ------------------------------------------------------------ cv2.waitKey
\* The window's events are delivered while waitKey runs: any number of
\* mouse callbacks, then the key waitKey returns.
mouse_callback(event, x, y) ==
  /\ pc = "key"
  /\ inputs < MaxInputs
  /\ inputs' = inputs + 1
  /\ mouse_x' = x
  /\ mouse_y' = y
  /\ mouse_clicked' = (mouse_clicked \/ event = "EVENT_LBUTTONDOWN")
  /\ click_pos' = IF event = "EVENT_LBUTTONDOWN"
                  THEN Append(click_pos, <<x, y>>) ELSE click_pos
  /\ UNCHANGED <<pc, calibration_file, finger_ranges, smoother, current_raw_values,
                 hand_detected, data, mirror_mode, message, message_color,
                 load_returned, lastEvent, calState, smooth_log>>

\* What every key branch shares.
KeyRead ==
  /\ pc = "key"
  /\ UNCHANGED <<current_raw_values, hand_detected, data, mouse_x, mouse_y,
                 mouse_clicked, load_returned, click_pos, smooth_log>>

\* A key bound to a control operation is one more control input.
KeyPressed ==
  /\ KeyRead
  /\ inputs < MaxInputs
  /\ inputs' = inputs + 1
  /\ pc' = "frame"

\* No key within the wait, or a key bound to nothing.
KeyNone ==
  /\ KeyRead
  /\ pc' = "frame"
  /\ UNCHANGED <<calibration_file, finger_ranges, smoother, mirror_mode, message,
                 message_color, lastEvent, calState, inputs>>

\* break: the loop ends and the process exits.  Nothing of its memory
\* outlives it; the file does.
KeyQuit ==
  /\ pc = "key"
  /\ pc' = "stopped"
  /\ finger_ranges' = DefaultRanges
  /\ load_returned' = FALSE
  /\ smoother' = AngleSmoother
  /\ current_raw_values' = EmptyDict
  /\ hand_detected' = FALSE
  /\ data' = NoHandPacket
  /\ mouse_x' = 0 /\ mouse_y' = 0 /\ mouse_clicked' = FALSE
  /\ mirror_mode' = TRUE
  /\ message' = "" /\ message_color' = <<0, 255, 255>>
  /\ lastEvent' = [NoEvent EXCEPT !.op = "quit", !.trigger = "key"]
  /\ calState' = "clean"
  /\ click_pos' = <<>>
  /\ smooth_log' = <<>>
  /\ UNCHANGED <<calibration_file, inputs>>

KeyMirror ==
  /\ KeyPressed
  /\ mirror_mode' = ~mirror_mode
  /\ message' = MirrorMessage(~mirror_mode)
  /\ lastEvent' = Event("mirror", "key", TRUE)
  /\ UNCHANGED <<calibration_file, finger_ranges, smoother, message_color, calState>>

\* "elif key == ord('1') and current_raw_values": with no readings the branch
\* is not taken, and no later branch matches the key.
KeyOpen ==
  /\ KeyPressed
  /\ lastEvent' = Event("open", "key", TRUE)
  /\ IF current_raw_values # EmptyDict
     THEN /\ finger_ranges' = CaptureMax(finger_ranges, current_raw_values, 1)
          /\ message' = "OPEN hand calibrated!"
          /\ message_color' = <<0, 255, 0>>
          /\ smoother' = reset(smoother)
     ELSE UNCHANGED <<finger_ranges, message, message_color, smoother>>
  /\ calState' = IF finger_ranges' # finger_ranges THEN "dirty" ELSE calState
  /\ UNCHANGED <<calibration_file, mirror_mode>>

KeyClosed ==
  /\ KeyPressed
  /\ lastEvent' = Event("closed", "key", TRUE)
  /\ IF current_raw_values # EmptyDict
     THEN /\ finger_ranges' = CaptureMin(finger_ranges, current_raw_values, 1)
          /\ message' = "CLOSED fist calibrated!"
          /\ message_color' = <<0, 255, 0>>
          /\ smoother' = reset(smoother)
     ELSE UNCHANGED <<finger_ranges, message, message_color, smoother>>
  /\ calState' = IF finger_ranges' # finger_ranges THEN "dirty" ELSE calState
  /\ UNCHANGED <<calibration_file, mirror_mode>>

\* The result of save_calibration() is dropped.
KeySave ==
  /\ KeyPressed
  /\ \E fault \in SaveFaults :
       LET r == save_calibration(finger_ranges, calibration_file, fault)
       IN  /\ calibration_file' = r.file
           /\ lastEvent' = Event("save", "key", r.ret)
  /\ message' = "Calibration SAVED!"
  /\ UNCHANGED <<finger_ranges, smoother, mirror_mode, message_color, calState>>

\* The file is left on disk.
KeyReset ==
  /\ KeyPressed
  /\ finger_ranges' = reset_defaults
  /\ message' = "Reset to defaults!"
  /\ smoother' = reset(smoother)
  /\ lastEvent' = Event("reset", "key", TRUE)
  /\ calState' = IF finger_ranges' # finger_ranges THEN "dirty" ELSE calState
  /\ UNCHANGED <<calibration_file, mirror_mode, message_color>>

Next ==
  \/ Main
  \/ EnterLoop
  \/ ReadFail
  \/ FrameNoHand
  \/ \E p \in Poses : FrameHand(p)
  \/ NoClick
  \/ ClickOpen
  \/ ClickClosed
  \/ ClickSave
  \/ ClickReset
  \/ ClickMirror
  \/ ClickNowhere
  \/ \E e \in MouseEvents : mouse_callback(e[1], e[2][1], e[2][2])
  \/ KeyNone
  \/ KeyQuit
  \/ KeyMirror
  \/ KeyOpen
  \/ KeyClosed
  \/ KeySave
  \/ KeyReset

Spec == Init /\ [][Next]_vars

\* ------------------------------------------------- the smoother on its own
\* An AngleSmoother(alpha=0.35) driven directly: smooth is called up to
\* MaxCalls times with a reading from SmoothInputs on all six channels, and
\* reset at any time.
SmoothInputs == {0, 1, 332, 333, 334}

SmoothInit ==
  /\ pc = "smooth"
  /\ calibration_file = Missing
  /\ finger_ranges = DefaultRanges
  /\ load_returned = FALSE
  /\ smoother = AngleSmoother
  /\ current_raw_values = EmptyDict
  /\ hand_detected = FALSE
  /\ data = NoHandPacket
  /\ mouse_x = 0 /\ mouse_y = 0 /\ mouse_clicked = FALSE
  /\ mirror_mode = TRUE
  /\ message = "" /\ message_color = <<0, 255, 255>>
  /\ lastEvent = NoEvent
  /\ calState = "clean"
  /\ inputs = 0
  /\ click_pos = <<>>
  /\ smooth_log = <<>>

\* smoother.smooth([v] * 6)
SmoothCall(v) ==
  /\ pc = "smooth"
  /\ ~smoother.initialized \/ Len(smooth_log) < MaxCalls
  /\ LET angles == [i \in 1..6 |-> v]
         r == smooth(smoother, angles)
     IN  /\ smoother' = r.state
         /\ data' = [detected |-> TRUE, angles |-> r.out, landmarks |-> <<>>]
         /\ smooth_log' = LET call == [in |-> angles, out |-> r.out]
                          IN  IF smoother.initialized
                              THEN Append(smooth_log, call) ELSE <<call>>
  /\ UNCHANGED <<pc, calibration_file, finger_ranges, current_raw_values, hand_detected,
                 mouse_x, mouse_y, mouse_clicked, mirror_mode, message, message_color,
                 load_returned, lastEvent, calState, inputs, click_pos>>

\* smoother.reset()
SmoothReset ==
  /\ pc = "smooth"
  /\ smoother.initialized
  /\ smoother' = reset(smoother)
  /\ UNCHANGED <<pc, calibration_file, finger_ranges, current_raw_values, hand_detected,
                 data, mouse_x, mouse_y, mouse_clicked, mirror_mode, message,
                 message_color, load_returned, lastEvent, calState, inputs, click_pos,
                 smooth_log>>

SmoothNext ==
  \/ \E v \in SmoothInputs : SmoothCall(v)
  \/ SmoothReset

SmoothSpec == SmoothInit /\ [][SmoothNext]_vars

\* ------------------------------------------------------------------ claims
CaptureOpenStep == ClickOpen \/ KeyOpen
CaptureClosedStep == ClickClosed \/ KeyClosed

\* C1: a capture-open or capture-closed event, by button or by key, handled
\* while the most recently processed frame showed no hand changes no
\* calibration bound and does not reset the smoother.
C1_CaptureWithoutHandIsNoOp ==
  [][ ((CaptureOpenStep \/ CaptureClosedStep) /\ ~hand_detected)
        => (finger_ranges' = finger_ranges /\ smoother' = smoother) ]_vars

\* C2: the first hand-detected frame after a change of the calibration ranges
\* emits exactly that frame's normalized readings: the smoother was reset by
\* the event that changed the ranges, so nothing of its earlier state is
\* blended in.
C2_FirstFrameAfterChangeUnblended ==
  calState = "fresh" =>
    /\ data.detected
    /\ data.angles = NormalizedAngles(finger_ranges, current_raw_values)

\* A hand frame has been emitted right after a capture changed the ranges.
C2_Witness ==
  /\ calState = "fresh"
  /\ pc = "click"
  /\ finger_ranges # DefaultRanges
  /\ data.angles # <<1000, 1000, 1000, 1000, 1000, 500>>

\* C3: a frame without a hand emits exactly the no-hand packet and leaves the
\* smoother (running values and initialized flag) as it was.
C3_NoHandFrameLeavesSmoother ==
  [][ (pc = "frame" /\ pc' = "click" /\ ~hand_detected')
        => (data' = NoHandPacket /\ smoother' = smoother) ]_vars

\* A no-hand frame has been processed while the smoother held blended state.
C3_Witness ==
  /\ pc = "click"
  /\ ~hand_detected
  /\ data = NoHandPacket
  /\ smoother.initialized
  /\ smoother.blends >= 1

\* C4: the angles of every packet are six integers in [0, 1000], whatever the
\* calibration ranges have become.
C4_AnglesInRange ==
  /\ DOMAIN data.angles = 1..6
  /\ \A i \in 1..6 : data.angles[i] \in 0..FullScale

\* A hand packet has been emitted under a range with min > max.
C4_Witness ==
  /\ pc = "click"
  /\ data.detected
  /\ \E c \in Channels : finger_ranges[c][1] > finger_ranges[c][2]

\* C5: after reset-defaults, by button or by key, the ranges are the
\* defaults, no persisted record is left and the smoother is reset (stated
\* for the runs in which the file system does not refuse the deletion).
C5_ResetDeletesRecord ==
  (lastEvent.op = "reset" /\ lastEvent.ok) =>
    /\ finger_ranges = DefaultRanges
    /\ calibration_file = Missing
    /\ ~smoother.initialized

\* C6: a capture event that finds no raw reading is reported as "No hand
\* detected!", on the button path and on the key path.
C6_CaptureWithoutReadingReported ==
  (lastEvent.op \in {"open", "closed"} /\ ~lastEvent.raw) => message = "No hand detected!"

\* C7: the outcome reported for a save, by button or by key, is that of
\* save_calibration: a failed save is reported as failed, never as saved.
C7_SaveOutcomeReported ==
  lastEvent.op = "save" =>
    message = (IF lastEvent.ok THEN "Calibration SAVED!" ELSE "Save FAILED!")

\* C8: whatever the persisted record holds, the frame loop is never left by
\* an exception: every frame is processed and its packet emitted.
C8_RecordNeverFatal == pc # "crashed"

\* C9: capture-open with readings available sets every channel's max to its
\* current raw reading and leaves every min alone; capture-closed sets every
\* min and leaves every max alone; the same capture repeated changes nothing.
C9_CaptureSetsOneBound ==
  [][ /\ (CaptureOpenStep /\ current_raw_values # EmptyDict) =>
           /\ \A c \in Channels :
                /\ finger_ranges'[c][2] = current_raw_values[c]
                /\ finger_ranges'[c][1] = finger_ranges[c][1]
           /\ CaptureMax(finger_ranges', current_raw_values, 1) = finger_ranges'
      /\ (CaptureClosedStep /\ current_raw_values # EmptyDict) =>
           /\ \A c \in Channels :
                /\ finger_ranges'[c][1] = current_raw_values[c]
                /\ finger_ranges'[c][2] = finger_ranges[c][2]
           /\ CaptureMin(finger_ranges', current_raw_values, 1) = finger_ranges'
    ]_vars

\* A capture-open has written its readings over ranges a capture-closed had
\* left with other minima.
C9_Witness ==
  /\ lastEvent.op = "open"
  /\ lastEvent.raw
  /\ \A c \in Channels : finger_ranges[c][2] = current_raw_values[c]
  /\ \E c \in Channels : finger_ranges[c][1] # DefaultRanges[c][1]

\* The ranges a construction must produce from the file.
MergedFromFile ==
  \A c \in Channels :
    /\ c \in DOMAIN finger_ranges
    /\ finger_ranges[c] =
         IF calibration_file.kind = "map" /\ c \in DOMAIN calibration_file.map
         THEN json_load(calibration_file.map)[c]
         ELSE DefaultRanges[c]

LoadedAsClaimed ==
  /\ MergedFromFile
  /\ calibration_file.kind # "map" => ~load_returned

\* C10: load merges the record into the ranges in memory: a channel present
\* in the record takes the record's value, an absent channel keeps the range
\* it had (the default, load being called by the constructor only); with the
\* record missing or unreadable load returns false and no range changes.
C10_LoadMerges == pc = "start" => LoadedAsClaimed

\* The store was constructed from a record that holds only some channels.
C10_Witness ==
  /\ pc = "start"
  /\ load_returned
  /\ calibration_file.kind = "map"
  /\ DOMAIN calibration_file.map # Channels
  /\ MergedFromFile
  /\ finger_ranges # DefaultRanges

\* C11: once a save has succeeded, a store constructed afresh from the record
\* holds, for all six channels, the ranges that were saved.
C11_RoundTrip ==
  (lastEvent.op = "save" /\ lastEvent.ok) =>
    /\ HandCalibration(calibration_file).ret
    /\ \A c \in Channels :
         HandCalibration(calibration_file).ranges[c] = finger_ranges[c]

\* Ranges that a capture made differ from the defaults were saved.
C11_Witness ==
  /\ lastEvent.op = "save" /\ lastEvent.ok /\ lastEvent.raw
  /\ ~NormalizeRaises(finger_ranges)
  /\ \E c \in Channels : finger_ranges[c] # DefaultRanges[c]
  /\ \E p \in Poses : \A c \in Channels :
       finger_ranges[c][1] = Raw(p)[c] \/ finger_ranges[c][2] = Raw(p)[c]
  /\ HandCalibration(calibration_file).ranges = finger_ranges

SaveStep == ClickSave \/ KeySave

\* C12: a save that fails, by button or by key, returns false without
\* raising: the ranges in memory and the smoother are as before, and the
\* loop goes on to its next step.
C12_FailedSaveLeavesMemory ==
  [][(SaveStep /\ ~lastEvent'.ok) =>
       /\ finger_ranges' = finger_ranges
       /\ smoother' = smoother
       /\ pc' \in {"key", "frame"}]_vars

\* A save of ranges that differ from the defaults failed while the file was
\* being written; the smoother was running.
C12_Witness ==
  /\ lastEvent.op = "save" /\ ~lastEvent.ok /\ lastEvent.raw
  /\ pc \in {"key", "frame"}
  /\ calibration_file = Corrupt
  /\ smoother.initialized
  /\ \E c \in Channels : finger_ranges[c] # DefaultRanges[c]

\* The bound a capture writes: index 2 (max) for open, index 1 (min) for closed.
CapturedBound(op) == IF op = "open" THEN 2 ELSE 1

\* C13: the bounds a capture has written are, in all six channels, the
\* readings of one hand frame: the frame current_raw_values holds.
C13_CaptureFromOneFrame ==
  (lastEvent.op \in {"open", "closed"} /\ lastEvent.raw) =>
    \E p \in Poses :
      /\ current_raw_values = Raw(p)
      /\ \A c \in Channels : finger_ranges[c][CapturedBound(lastEvent.op)] = Raw(p)[c]

\* A button capture after two hand frames that showed different poses.
C13_Witness ==
  /\ lastEvent.op = "open" /\ lastEvent.raw /\ lastEvent.trigger = "button"
  /\ Len(smooth_log) = 2
  /\ smooth_log[1].in # smooth_log[2].in
  /\ \A c \in Channels : finger_ranges[c][2] = current_raw_values[c]

\* A hand frame was processed and its packet sent: smooth was called.
SmoothStep == pc = "frame" /\ pc' = "click" /\ hand_detected'

\* C14: a smooth call made while the smoother is not initialized (after
\* construction or after a reset, whatever running values it still holds)
\* returns its six inputs unchanged and makes them the running values.
C14_FirstCallReturnsInput ==
  [][(SmoothStep /\ ~smoother.initialized) =>
       LET input == NormalizedAngles(finger_ranges, current_raw_values')
       IN  /\ data'.angles = input
           /\ smoother'.initialized
           /\ smoother'.blends = 0
           /\ smoother'.smoothed = input]_vars

\* The first call after a reset that a control event made: the packet and
\* the running values are the call's input, not the construction values.
C14_Witness ==
  /\ pc = "click" /\ hand_detected /\ inputs >= 1
  /\ calState = "fresh"
  /\ smoother.initialized /\ smoother.blends = 0
  /\ Len(smooth_log) = 1
  /\ smoother.smoothed = smooth_log[1].in
  /\ data.angles = smooth_log[1].in
  /\ smoother.smoothed # AngleSmoother.smoothed

\* round() of the rational num / den, num >= 0 and den > 0: the nearest
\* integer, a tie going to the even one.
Round(num, den) ==
  LET q == num \div den
      r == num % den
  IN  IF 2 * r < den THEN q
      ELSE IF 2 * r > den THEN q + 1
      ELSE IF q % 2 = 0 THEN q ELSE q + 1

\* C15: on a smooth call made while the smoother is initialized, each
\* channel's running value becomes alpha * input + (1 - alpha) * running
\* value and is stored unrounded, and the value returned for the channel is
\* the running value rounded to the nearest integer.
C15_BlendThenRound ==
  [][(SmoothStep /\ smoother.initialized) =>
       LET input == NormalizedAngles(finger_ranges, current_raw_values')
       IN  /\ smoother'.blends = smoother.blends + 1
           /\ \A i \in 1..6 :
                /\ smoother'.smoothed[i] =
                     AlphaNum * input[i] * Den(smoother)
                       + (AlphaDen - AlphaNum) * smoother.smoothed[i]
                /\ data'.angles[i] = Round(smoother'.smoothed[i], Den(smoother'))]_vars

\* The value the claim gives normalize for a range <<min_val, max_val>> that
\* is not degenerate: t = (raw - min) / (max - min) clamped to [0, 1], then
\* t * 1000 rounded.
RoundedNormalize(min_val, max_val, raw_value) ==
  LET num == IF max_val > min_val THEN raw_value - min_val ELSE min_val - raw_value
      den == Abs(max_val - min_val)
      clamped == IF num < 0 THEN 0 ELSE IF num > den THEN den ELSE num
  IN  Round(clamped * FullScale, den)

\* The values normalize returned for the hand frame just processed.
LastNormalized == smooth_log[Len(smooth_log)].in

\* C16: for every channel whose range has |max - min| >= 0.001, the value
\* normalize returned for the frame's raw reading is round(t * 1000) with t
\* clamped to [0, 1]; normalize of the range's min is 0 and of its max 1000.
C16_NormalizeRounds ==
  (pc = "click" /\ hand_detected) =>
    \A i \in 1..6 :
      LET c == finger_names[i]
          min_val == finger_ranges[c][1]
          max_val == finger_ranges[c][2]
      IN  Abs(max_val - min_val) >= Eps =>
            /\ LastNormalized[i] = RoundedNormalize(min_val, max_val, current_raw_values[c])
            /\ normalize(finger_ranges, c, min_val) = 0
            /\ normalize(finger_ranges, c, max_val) = FullScale

\* The smoother is initialized and every call after the first had the same
\* input.
ConstantRun ==
  /\ smoother.initialized
  /\ Len(smooth_log) >= 2
  /\ \A k \in 2..Len(smooth_log) : smooth_log[k].in = smooth_log[2].in

\* C17: with the same input v on every call after the first, each channel's
\* outputs come no further from v call by call, stay between v and the
\* running value s0 the constant input found, and reach v: at the latest
\* once the running value is within 1/2 of v, the output equals v.
C17_ConstantInputConverges ==
  ConstantRun =>
    \A i \in 1..6 :
      LET s0 == smooth_log[1].in[i]
          v == smooth_log[2].in[i]
          n == Len(smooth_log)
          lo == IF s0 < v THEN s0 ELSE v
          hi == IF s0 < v THEN v ELSE s0
      IN  /\ \A k \in 2..n :
               /\ Abs(v - smooth_log[k].out[i]) <= Abs(v - smooth_log[k - 1].out[i])
               /\ lo <= smooth_log[k].out[i] /\ smooth_log[k].out[i] <= hi
          /\ 2 * Abs(smoother.smoothed[i] - v * Den(smoother)) < Den(smoother)
               => smooth_log[n].out[i] = v

\* Why a constant input v above the running value is never reached: the
\* running value stays below v, so its truncation stays below v too.
BelowStaysBelow ==
  ConstantRun =>
    \A i \in 1..6 :
      smooth_log[1].in[i] < smooth_log[2].in[i] =>
        /\ smoother.smoothed[i] < smooth_log[2].in[i] * Den(smoother)
        /\ smooth_log[Len(smooth_log)].out[i] < smooth_log[2].in[i]

\* A name that is none of the six channels, and the raw values tried.
UnknownName == "wrist"
RawValues == {0, 4000, 4003, 20000}

Degenerate(range) == Abs(range[2] - range[1]) < Eps

EventsLeavePacket == (pc \in {"click", "key"} /\ pc' # "stopped") => data' = data

\* The packet of a hand frame is computed from the ranges in force when the
\* frame is processed: every change made in an earlier iteration is in it.
PacketFromCurrentRanges ==
  SmoothStep =>
    /\ finger_ranges' = finger_ranges
    /\ LastNormalized' = NormalizedAngles(finger_ranges, current_raw_values')
    /\ data'.angles = smooth(smoother, LastNormalized').out

\* A frame was read (a step from "frame" that is not the "continue" of a
\* failed read): its packet is sent, the iteration goes on to the events.
ReadFrameEmitsPacket == pc = "frame" => (pc' = "click" /\ data'.detected = hand_detected')

\* The ordering within an iteration, without the count of packets.
PacketBeforeEvents == [][EventsLeavePacket /\ PacketFromCurrentRanges]_vars

\* C19: in an iteration the packet is sent before the control events are
\* applied, so an event never alters the packet of its own iteration and a
\* change of the ranges shows first in the packet of the next hand frame;
\* every frame that was read emits its one packet.
C19_OnePacketBeforeEvents ==
  [][EventsLeavePacket /\ PacketFromCurrentRanges /\ ReadFrameEmitsPacket]_vars

\* The operation of the button that holds the point pt, "none" outside all.
ButtonOp(pt) ==
  CASE contains(btn_open, pt[1], pt[2])   -> "open"
    [] contains(btn_closed, pt[1], pt[2]) -> "closed"
    [] contains(btn_save, pt[1], pt[2])   -> "save"
    [] contains(btn_reset, pt[1], pt[2])  -> "reset"
    [] contains(btn_mirror, pt[1], pt[2]) -> "mirror"
    [] OTHER                              -> "none"

IsOperation(op) == op # "none"

\* The operations the clicks waiting to be handled were made on, in order.
ClickedOperations ==
  SelectSeq([k \in 1..Len(click_pos) |-> ButtonOp(click_pos[k])], IsOperation)

\* C20: when the loop handles pending clicks of which some were made on a
\* button, the operations it triggers are those of the buttons clicked,
\* each once and no other, whatever pointer moves and clicks the callback
\* delivered since.
C20_ClickTriggersItsButton ==
  [][(pc = "click" /\ mouse_clicked /\ ClickedOperations # <<>>) =>
       ClickedOperations =
         IF lastEvent'.op = "none" THEN <<>> ELSE <<lastEvent'.op>>]_vars

=============================================================================
